---- MODULE Spec2Model ----
(***************************************************************************)
(* ross-bott: a stale-issue scanner run by a daily scheduler, a webhook    *)
(* receiver (POST /), a dashboard page (GET /) and the statistics          *)
(* collectors behind it.                                                   *)
(*                                                                         *)
(* The four parts share no state in the program, so each is checked under  *)
(* its own specification (SpecScan, SpecWeb, SpecStats, SpecSched); the    *)
(* variables of the other parts are held at their initial value.           *)
(* SpecRescan follows the scanner over several ticks, weeks apart.         *)
(***************************************************************************)
EXTENDS Integers, Sequences, FiniteSets, TLC

VARIABLES
    \* ---- issue tracker and scanner (mark_stale_issues)
    issues,        \* the remote tracker: id -> [updated_at, state, comments, labels]
    now,           \* wall clock of the scanner, in hours
    runs,          \* number of scanner runs so far
    lastRun,       \* what the last scanner run saw and did
    \* ---- webhook receiver (POST /)
    secret,        \* os.environ.get("GH_SECRET"): None or the shared secret
    lastPost,      \* the last POST / request and how main() answered it
    \* ---- statistics collectors and dashboard (GET /)
    today,         \* datetime.today().date(), as a day number
    files,         \* views.csv and clones.csv in the bucket: type -> rows
    traffic,       \* the traffic API: type -> the days it has a record for
    starsFile,     \* stars.csv in the bucket: rows [user, starred_at]
    stargazers,    \* the stargazers API: rows [user, starred_at]
    page,          \* static/main.html
    lastOp,        \* the last refresh run and what it returned
    lastGet,       \* the last GET / request and how web_page() answered it
    \* ---- scheduler thread (scheduled_tasks)
    clock,         \* wall clock, in minutes since midnight of day 0
    schedPc,       \* where the scheduler thread is: down, poll, job, sleep, dead
    next_run,      \* the job's next_run
    last_run,      \* the job's last_run, NoTime before the first run
    boot,          \* about the start of the running process: its day, whether
                   \* 10:30 of that day had passed, whether each next_run it
                   \* set was ahead of the clock
    lastStart,     \* the last start of mark_stale_issues: when, for which tick
    startsThatDay, \* the starts so far on the calendar day of the last start
    running        \* the runs of mark_stale_issues in progress

scanVars  == <<issues, now, runs, lastRun>>
webVars   == <<secret, lastPost>>
statsVars == <<today, files, traffic, starsFile, stargazers, page, lastOp, lastGet>>
schedVars == <<clock, schedPc, next_run, last_run, boot, lastStart,
               startsThatDay, running>>
vars      == <<scanVars, webVars, statsVars, schedVars>>

None == "None"

(***************************************************************************)
(* Scanner: mark_stale_issues, __main__.py lines 97-124                    *)
(***************************************************************************)

\* Datetimes are counted in hours; a timedelta's .days is the floor of the
\* difference in days (also for a negative difference).
HoursPerDay == 24

\* LIMIT = 45, the threshold in days.
LIMIT == 45

\* ---- bounds of the scanner model
MaxIssues == 2     \* issues in the tracker
MaxRuns   == 2     \* scanner runs in one behaviour
NowSpan   == 1     \* hours the clock may advance
QuietSpan == 1     \* quiet periods of LIMIT + 1 days that may pass

NowBase == (LIMIT + 20) * HoursPerDay

\* ages (now - updated_at, in hours) the tracker's issues start with: a last
\* update in the future (negative), LIMIT days to the hour and an hour more,
\* LIMIT + 1 days to the hour and an hour less, and the 61 days of the
\* spec's scenario. The clock's ticks add the hours after each.
Ages ==
    {-HoursPerDay,
     LIMIT * HoursPerDay, LIMIT * HoursPerDay + 1,
     (LIMIT + 1) * HoursPerDay - 1, (LIMIT + 1) * HoursPerDay,
     61 * HoursPerDay}

IssueIds == 1 .. MaxIssues

TimedeltaDaysRound(a, b) == (a - b + HoursPerDay - 1) \div HoursPerDay

\* (a - b).days
TimedeltaDays(a, b) == (a - b) \div HoursPerDay

\* ross_repo.get_issues(state="open"): the open issues, in listing order
get_issues(iss) ==
    SelectSeq([i \in IssueIds |-> i], LAMBDA i : iss[i].state = "open")

\* lines 104-108: the issues whose last update is more than LIMIT days old
not_updated_issues(iss, at) ==
    SelectSeq(get_issues(iss),
              LAMBDA i : TimedeltaDays(at, iss[i].updated_at) > LIMIT)

RECURSIVE MarkLoopNoLabel(_, _, _, _)
MarkLoopNoLabel(iss, list, k, failAt) ==
    IF k > Len(list) THEN [issues |-> iss, raised |-> FALSE]
    ELSE IF failAt = 2 * k - 1 THEN [issues |-> iss, raised |-> TRUE]
    ELSE LET c == [iss EXCEPT ![list[k]].comments = @ + 1]
         IN  IF failAt = 2 * k THEN [issues |-> c, raised |-> TRUE]
             ELSE MarkLoopNoLabel(c, list, k + 1, failAt)

RECURSIVE MarkLoopSkipLabelled(_, _, _, _)
MarkLoopSkipLabelled(iss, list, k, failAt) ==
    IF k > Len(list) THEN [issues |-> iss, raised |-> FALSE]
    ELSE IF "stale" \in iss[list[k]].labels
         THEN MarkLoopSkipLabelled(iss, list, k + 1, failAt)
    ELSE IF failAt = 2 * k - 1 THEN [issues |-> iss, raised |-> TRUE]
    ELSE LET c == [iss EXCEPT ![list[k]].comments = @ + 1]
         IN  IF failAt = 2 * k THEN [issues |-> c, raised |-> TRUE]
             ELSE MarkLoopSkipLabelled(
                      [c EXCEPT ![list[k]].labels = @ \cup {"stale"}],
                      list, k + 1, failAt)

\* lines 121-123: for each listed issue create_comment, then add_to_labels.
\* The remote calls are numbered 1, 2, ... in the order they are made; call
\* number failAt raises (0: none does). Nothing catches the exception, so
\* the loop ends there.
RECURSIVE MarkLoop(_, _, _, _)
MarkLoop(iss, list, k, failAt) ==
    IF k > Len(list) THEN [issues |-> iss, raised |-> FALSE]
    ELSE IF failAt = 2 * k - 1 THEN [issues |-> iss, raised |-> TRUE]
    ELSE LET c == [iss EXCEPT ![list[k]].comments = @ + 1]
         IN  IF failAt = 2 * k THEN [issues |-> c, raised |-> TRUE]
             ELSE MarkLoop([c EXCEPT ![list[k]].labels = @ \cup {"stale"}],
                           list, k + 1, failAt)

\* What the tracker does to updated_at of the issues a run commented or
\* labelled is the tracker's business: either it counts the scanner's own
\* comment as an update of the issue (touch, updated_at becomes the time of
\* the run) or it leaves updated_at alone. The list of line 104-108 is built
\* before the first comment, so neither changes what the same run marks.
tracker_updated(before, after, at, touch) ==
    [i \in IssueIds |->
        IF touch /\ after[i] # before[i]
        THEN [after[i] EXCEPT !.updated_at = at]
        ELSE after[i]]

NoRun ==
    [status |-> "none", today |-> 0, fetched |-> <<>>,
     not_updated |-> <<>>, failAt |-> 0]

ScanInit ==
    /\ issues \in [IssueIds -> [updated_at : {NowBase - a : a \in Ages},
                                state : {"open", "closed"},
                                comments : {0},
                                labels : {{}}]]
    /\ now = NowBase
    /\ runs = 0
    /\ lastRun = NoRun

\* the run in which get_issues itself raises: nothing is listed or marked
mark_stale_issues_list_fails ==
    /\ runs < MaxRuns
    /\ runs' = runs + 1
    /\ lastRun' = [NoRun EXCEPT !.status = "list_failed", !.today = now,
                                !.fetched = issues]
    /\ UNCHANGED <<issues, now>>
    /\ UNCHANGED <<webVars, statsVars, schedVars>>

\* one run of mark_stale_issues
mark_stale_issues ==
    /\ runs < MaxRuns
    /\ LET list == not_updated_issues(issues, now)
       IN  \E failAt \in 0 .. 2 * Len(list) :
             LET r == MarkLoop(issues, list, 1, failAt)
             IN  /\ \E touch \in BOOLEAN :
                        issues' = tracker_updated(issues, r.issues, now, touch)
                 /\ lastRun' = [status |-> IF r.raised THEN "raised" ELSE "ok",
                                today |-> now,
                                fetched |-> issues,
                                not_updated |-> list,
                                failAt |-> failAt]
    /\ runs' = runs + 1
    /\ UNCHANGED now
    /\ UNCHANGED <<webVars, statsVars, schedVars>>

\* time passes between runs
ClockTick ==
    /\ now < NowBase + NowSpan
    /\ now' = now + 1
    /\ UNCHANGED <<issues, runs, lastRun>>
    /\ UNCHANGED <<webVars, statsVars, schedVars>>

\* LIMIT + 1 days pass between two ticks of the scheduler with no activity
\* on any issue
QuietPeriod ==
    /\ now + (LIMIT + 1) * HoursPerDay
          <= NowBase + NowSpan + QuietSpan * (LIMIT + 1) * HoursPerDay
    /\ now' = now + (LIMIT + 1) * HoursPerDay
    /\ UNCHANGED <<issues, runs, lastRun>>
    /\ UNCHANGED <<webVars, statsVars, schedVars>>

ScanNext ==
    \/ mark_stale_issues
    \/ mark_stale_issues_list_fails
    \/ ClockTick

\* The scanner over the weeks: the tracker starts with issues that were
\* never marked, 61 days old or LIMIT days old to the hour.
RescanInit ==
    /\ issues \in [IssueIds ->
                    [updated_at : {NowBase - 61 * HoursPerDay,
                                   NowBase - LIMIT * HoursPerDay},
                     state : {"open", "closed"},
                     comments : {0},
                     labels : {{}}]]
    /\ now = NowBase
    /\ runs = 0
    /\ lastRun = NoRun

RescanNext ==
    \/ mark_stale_issues
    \/ mark_stale_issues_list_fails
    \/ ClockTick
    \/ QuietPeriod

(***************************************************************************)
(* Webhook receiver: main, __main__.py lines 40-67                         *)
(***************************************************************************)

SharedSecret == "GH_SECRET value"
OtherKey     == "another key"

Payloads == [wellformed : BOOLEAN, action : {"opened", "closed"}]
EventTypes == {"issues", "push"}

\* An HMAC signature is modelled by the pair of the key and the body it was
\* computed from; the x-hub-signature header is absent (the empty tuple) or
\* carries one.
NoSignature == <<>>
Signatures ==
    {NoSignature} \cup {<<k, b>> : k \in {SharedSecret, OtherKey}, b \in Payloads}

Requests == [signature : Signatures, body : Payloads, event : EventTypes]

\* sansio.validate_event: the header must equal the HMAC of the body under
\* the secret
validate_event(body, signature, key) ==
    signature = <<key, body>>

from_http_unchecked(req, key) ==
    IF ~req.body.wellformed THEN "BadRequest" ELSE "Event"

\* sansio.Event.from_http(request.headers, body, secret=secret), line 59:
\* raises ValidationFailure when a signature comes without a secret, when it
\* does not validate, or when a secret is set and no signature comes; then
\* decodes the body (BadRequest when it cannot); with neither secret nor
\* signature nothing is verified.
from_http(req, key) ==
    IF req.signature # NoSignature /\ key = None THEN "ValidationFailure"
    ELSE IF req.signature # NoSignature
            /\ ~validate_event(req.body, req.signature, key)
         THEN "ValidationFailure"
    ELSE IF req.signature = NoSignature /\ key # None THEN "ValidationFailure"
    ELSE IF ~req.body.wellformed THEN "BadRequest"
    ELSE "Event"

\* @router.register("issues", action="opened"), line 40: the one registration
Registered == {[event |-> "issues", action |-> "opened",
                handler |-> "issue_opened_event"]}

\* router.dispatch(event, gh), line 64: the handlers registered for the
\* event's (type, action); issue_opened_event's body is `pass`.
dispatch(req) ==
    {r.handler : r \in {x \in Registered :
                          x.event = req.event /\ x.action = req.body.action}}

main_unmatched_rejected(req, key) ==
    LET ev == from_http(req, key)
    IN  IF ev # "Event"
        THEN [handled |-> TRUE, request |-> req, raised |-> ev,
              dispatched |-> FALSE, invoked |-> {}, status |-> 500]
        ELSE [handled |-> TRUE, request |-> req, raised |-> None,
              dispatched |-> TRUE, invoked |-> dispatch(req),
              status |-> IF dispatch(req) = {} THEN 404 ELSE 200]

\* main(request): an exception leaving the handler is answered 500 by the
\* server, otherwise line 67 answers 200.
main(req, key) ==
    LET ev == from_http(req, key)
    IN  IF ev # "Event"
        THEN [handled |-> TRUE, request |-> req, raised |-> ev,
              dispatched |-> FALSE, invoked |-> {}, status |-> 500]
        ELSE [handled |-> TRUE, request |-> req, raised |-> None,
              dispatched |-> TRUE, invoked |-> dispatch(req), status |-> 200]

NoPost ==
    [handled |-> FALSE,
     request |-> [signature |-> NoSignature,
                  body |-> [wellformed |-> TRUE, action |-> "opened"],
                  event |-> "issues"],
     raised |-> None, dispatched |-> FALSE, invoked |-> {}, status |-> 0]

WebInit ==
    /\ secret \in {None, SharedSecret}
    /\ lastPost = NoPost

Post ==
    /\ \E req \in Requests : lastPost' = main(req, secret)
    /\ UNCHANGED secret
    /\ UNCHANGED <<scanVars, statsVars, schedVars>>

WebNext == Post

(***************************************************************************)
(* Statistics collectors: statistics.py and __main__.py lines 127-231      *)
(***************************************************************************)

StatsTypes == {"views", "clones"}

\* ---- bounds of the statistics model
MaxDay == 2        \* calendar days 0 .. MaxDay

Days == 0 .. MaxDay

\* A timestamp cell of a CSV file is text: "YYYY-MM-DDT00:00:00Z" as the
\* traffic API gives it (always midnight), or "YYYY-MM-DD", which is what
\* writing a date object gives.
Stamp(d)  == [day |-> d, fmt |-> "datetime"]
DateOf(d) == [day |-> d, fmt |-> "date"]

\* datetime.strptime(item, "%Y-%m-%dT%H:%M:%SZ") raises ValueError on any
\* other text
Parses(ts) == ts.fmt = "datetime"

Row(ts, c, u) == [timestamp |-> ts, count |-> c, uniques |-> u]

\* the rows the traffic API returns for the days it has, oldest first
TrafficRows(days) ==
    SelectSeq([k \in 1 .. MaxDay + 1 |-> Row(Stamp(k - 1), 100 + k, 10 + k)],
              LAMBDA r : r.timestamp.day \in days)

\* a persisted series with one row for each day first .. last
Series(first, last) ==
    [k \in 1 .. (last - first + 1) |-> Row(Stamp(first + k - 1), 7, 3)]

HasDay(rows, d) == \E k \in 1 .. Len(rows) : rows[k].timestamp.day = d

\* lines 31-34 (143-145): the dates after the last persisted one, up to today.
\* The persisted timestamps are midnights, so .days is the date difference.
dates_not_included(rows, day) ==
    LET days_without_update == day - rows[Len(rows)].timestamp.day
    IN  {day - x : x \in 0 .. days_without_update - 1}

\* lines 36-40 (147-151): the fetched rows of those dates
Fetched(rows, remote, day) ==
    SelectSeq(remote, LAMBDA r : r.timestamp.day \in dates_not_included(rows, day))

\* lines 46-52: for i in reversed(range(delta)), append a zero row for
\* today - i when that date is not in the data
RECURSIVE ZeroFill(_, _, _)
ZeroFill(rows, i, day) ==
    IF i < 0 THEN rows
    ELSE ZeroFill(IF HasDay(rows, day - i) THEN rows
                  ELSE Append(rows, Row(DateOf(day - i), 0, 0)),
                  i - 1, day)

\* the order of the tuples (timestamp, count, uniques)
RowLE(a, b) ==
    \/ a.timestamp.day < b.timestamp.day
    \/ /\ a.timestamp.day = b.timestamp.day
       /\ \/ a.count < b.count
          \/ a.count = b.count /\ a.uniques <= b.uniques

RECURSIVE InsertRow(_, _)
InsertRow(r, rows) ==
    IF rows = <<>> THEN <<r>>
    ELSE IF RowLE(r, Head(rows)) THEN <<r>> \o rows
    ELSE <<Head(rows)>> \o InsertRow(r, Tail(rows))

SortRowsUnsorted(rows) == rows

\* line 54: sorted(zip(*stats_dict.values()))
RECURSIVE SortRows(_)
SortRows(rows) ==
    IF rows = <<>> THEN <<>> ELSE InsertRow(Head(rows), SortRows(Tail(rows)))

Outcome(exc, rows, ret, fetched, wrote) ==
    [raised |-> exc, file |-> rows, returned |-> ret,
     fetched |-> fetched, wrote |-> wrote]

\* statistics(stats_type, repo) of statistics.py, lines 14-67, on the
\* persisted rows, the rows the API returns and today's date
statistics(rows, remote, day) ==
    IF rows = <<>> THEN Outcome("IndexError", rows, <<>>, FALSE, FALSE)
    ELSE IF ~Parses(rows[Len(rows)].timestamp)
         THEN Outcome("ValueError", rows, <<>>, FALSE, FALSE)
    ELSE LET merged == rows \o Fetched(rows, remote, day)
         IN  IF \E k \in 1 .. Len(merged) : ~Parses(merged[k].timestamp)
             THEN Outcome("ValueError", rows, <<>>, TRUE, FALSE)
             ELSE LET dates == [k \in 1 .. Len(merged) |->
                                  [merged[k] EXCEPT !.timestamp = DateOf(@.day)]]
                      delta == day - dates[1].timestamp.day
                      out   == SortRows(ZeroFill(dates, delta - 1, day))
                  IN  Outcome(None, out, out, TRUE, TRUE)

\* statistics(stats_type) of __main__.py, lines 127-163: line 149 takes
\* .timestamp of a str, so a fetched row to merge raises AttributeError; the
\* file is rewritten (lines 152-158) before the timestamps are parsed
\* (lines 160-161).
statistics_main(rows, remote, day) ==
    IF rows = <<>> THEN Outcome("IndexError", rows, <<>>, FALSE, FALSE)
    ELSE IF ~Parses(rows[Len(rows)].timestamp)
         THEN Outcome("ValueError", rows, <<>>, FALSE, FALSE)
    ELSE IF Fetched(rows, remote, day) # <<>>
         THEN Outcome("AttributeError", rows, <<>>, TRUE, FALSE)
    ELSE IF \E k \in 1 .. Len(rows) : ~Parses(rows[k].timestamp)
         THEN Outcome("ValueError", rows, <<>>, TRUE, TRUE)
    ELSE Outcome(None, rows, rows, TRUE, TRUE)

Users == {"alice", "bob"}

Star(u, d) == [user |-> u, starred_at |-> d]

HasUser(rows, u) == \E k \in 1 .. Len(rows) : rows[k].user = u

\* stars_statistics() of __main__.py, lines 203-231: the persisted rows, then
\* the stargazers whose login is not among them
stars_statistics_main(rows, remote) ==
    LET stars_not_included ==
            SelectSeq(remote, LAMBDA st : ~HasUser(rows, st.user))
    IN  Outcome(None, rows \o stars_not_included, rows \o stars_not_included,
                TRUE, TRUE)

\* stars_statistics(repo) of statistics.py, lines 107-127: the stargazers
\* as listed; the persisted file is not read
stars_statistics(rows, remote) == Outcome(None, remote, remote, TRUE, TRUE)

NoOp ==
    [op |-> "none", type |-> "none", raised |-> None, before |-> <<>>,
     remote |-> <<>>, today |-> 0, returned |-> <<>>,
     second |-> FALSE, firstReturned |-> <<>>]

\* the record of a run of refresh `op` on `type`; `second` when the run
\* before it was a successful run of the same refresh with nothing in between
OpRecord(op, type, before, remote, r) ==
    [op |-> op, type |-> type, raised |-> r.raised, before |-> before,
     remote |-> remote, today |-> today, returned |-> r.returned,
     second |-> (lastOp.op = op /\ lastOp.type = type /\ lastOp.raised = None),
     firstReturned |-> IF lastOp.op = op /\ lastOp.type = type
                       THEN lastOp.returned ELSE <<>>]

\* template.render(...), lines 274-279: the page is a function of the three
\* series plotted
Render(views, clones, stars) ==
    [views |-> views, clones |-> clones, stars |-> stars]

\* main.html before generate_html has ever completed
NotRendered == Render(<<>>, <<>>, <<>>)

NoGet ==
    [handled |-> FALSE, status |-> 0, raised |-> None, fetched |-> {},
     wrote |-> {}, pageWritten |-> FALSE, pageBefore |-> NotRendered]

\* The two traffic files do not interact: the initial states vary one of
\* them over every gap-free series ending by today and every set of days
\* the API may hold, and keep the other at a one-row series.
StatsInit ==
    /\ today \in Days
    /\ \E t \in StatsTypes :
         /\ files \in [StatsTypes ->
                         {Series(f, l) : f \in 0 .. today, l \in 0 .. today}
                             \ {<<>>}]
         /\ traffic \in [StatsTypes -> SUBSET (0 .. today)]
         /\ \A o \in StatsTypes \ {t} :
              files[o] = Series(today, today) /\ traffic[o] = {}
    /\ starsFile = <<>>
    /\ stargazers = <<>>
    /\ page = NotRendered
    /\ lastOp = NoOp
    /\ lastGet = NoGet

\* a run of statistics.py's statistics(stats_type, repo)
RunStatistics ==
    /\ \E t \in StatsTypes :
         LET r == statistics(files[t], TrafficRows(traffic[t]), today)
         IN  /\ files' = [files EXCEPT ![t] = r.file]
             /\ lastOp' = OpRecord("statistics", t, files[t],
                                   TrafficRows(traffic[t]), r)
    /\ UNCHANGED <<today, traffic, starsFile, stargazers, page, lastGet>>
    /\ UNCHANGED <<scanVars, webVars, schedVars>>

\* a run of __main__.py's statistics(stats_type)
RunStatisticsMain ==
    /\ \E t \in StatsTypes :
         LET r == statistics_main(files[t], TrafficRows(traffic[t]), today)
         IN  /\ files' = [files EXCEPT ![t] = r.file]
             /\ lastOp' = OpRecord("statistics_main", t, files[t],
                                   TrafficRows(traffic[t]), r)
    /\ UNCHANGED <<today, traffic, starsFile, stargazers, page, lastGet>>
    /\ UNCHANGED <<scanVars, webVars, schedVars>>

\* a run of statistics.py's stars_statistics(repo)
RunStars ==
    /\ LET r == stars_statistics(starsFile, stargazers)
       IN  /\ starsFile' = r.file
           /\ lastOp' = OpRecord("stars_statistics", "stars", starsFile,
                                 stargazers, r)
    /\ UNCHANGED <<today, files, traffic, stargazers, page, lastGet>>
    /\ UNCHANGED <<scanVars, webVars, schedVars>>

\* a run of __main__.py's stars_statistics()
RunStarsMain ==
    /\ LET r == stars_statistics_main(starsFile, stargazers)
       IN  /\ starsFile' = r.file
           /\ lastOp' = OpRecord("stars_statistics_main", "stars", starsFile,
                                 stargazers, r)
    /\ UNCHANGED <<today, files, traffic, stargazers, page, lastGet>>
    /\ UNCHANGED <<scanVars, webVars, schedVars>>

\* midnight passes
NextDay ==
    /\ today < MaxDay
    /\ today' = today + 1
    /\ lastOp' = NoOp
    /\ UNCHANGED <<files, traffic, starsFile, stargazers, page, lastGet>>
    /\ UNCHANGED <<scanVars, webVars, schedVars>>

\* the traffic API gets a record for one more day
TrafficArrives ==
    /\ \E t \in StatsTypes, d \in 0 .. today :
         /\ d \notin traffic[t]
         /\ traffic' = [traffic EXCEPT ![t] = @ \cup {d}]
    /\ lastOp' = NoOp
    /\ UNCHANGED <<today, files, starsFile, stargazers, page, lastGet>>
    /\ UNCHANGED <<scanVars, webVars, schedVars>>

\* a user stars the repository today
StarAdded ==
    /\ \E u \in Users :
         /\ ~HasUser(stargazers, u)
         /\ stargazers' = Append(stargazers, Star(u, today))
    /\ lastOp' = NoOp
    /\ UNCHANGED <<today, files, traffic, starsFile, page, lastGet>>
    /\ UNCHANGED <<scanVars, webVars, schedVars>>

\* a user takes their star back
StarRemoved ==
    /\ \E u \in Users :
         /\ HasUser(stargazers, u)
         /\ stargazers' = SelectSeq(stargazers, LAMBDA st : st.user # u)
    /\ lastOp' = NoOp
    /\ UNCHANGED <<today, files, traffic, starsFile, page, lastGet>>
    /\ UNCHANGED <<scanVars, webVars, schedVars>>

(***************************************************************************)
(* Dashboard: web_page and generate_html, __main__.py lines 70-73, 166-282 *)
(***************************************************************************)

Html(exc, fs, sf, pg, fetched, wrote) ==
    [raised |-> exc, files |-> fs, starsFile |-> sf, page |-> pg,
     fetched |-> fetched, wrote |-> wrote, pageWritten |-> exc = None]

\* generate_html(), lines 268-282: stats_plot('views'), stats_plot('clones'),
\* stars_plot(), each refreshing its series first, then the page is
\* rendered and written. The first exception ends it; what was written to
\* the bucket before stays written. stars_plot takes max() of the counts
\* (line 255), which raises ValueError when there is no star.
generate_html(fs, sf, tr, sg, day, pg) ==
    LET v  == statistics_main(fs["views"], TrafficRows(tr["views"]), day)
        f1 == [fs EXCEPT !["views"] = v.file]
        n1 == IF v.fetched THEN {"views"} ELSE {}
        w1 == IF v.wrote THEN {"views"} ELSE {}
        c  == statistics_main(fs["clones"], TrafficRows(tr["clones"]), day)
        f2 == [f1 EXCEPT !["clones"] = c.file]
        n2 == n1 \cup (IF c.fetched THEN {"clones"} ELSE {})
        w2 == w1 \cup (IF c.wrote THEN {"clones"} ELSE {})
        st == stars_statistics_main(sf, sg)
    IN  IF v.raised # None THEN Html(v.raised, f1, sf, pg, n1, w1)
        ELSE IF c.raised # None THEN Html(c.raised, f2, sf, pg, n2, w2)
        ELSE IF st.returned = <<>>
             THEN Html("ValueError", f2, st.file, pg,
                       n2 \cup {"stars"}, w2 \cup {"stars"})
        ELSE Html(None, f2, st.file,
                  Render(v.returned, c.returned, st.returned),
                  n2 \cup {"stars"}, w2 \cup {"stars"})

web_page_no_refresh(fs, sf, tr, sg, day, pg) ==
    [html |-> Html(None, fs, sf, pg, {}, {}), status |-> 200]

\* web_page(request), lines 70-73: generate_html(), then the page file is
\* served; an exception leaving the handler is answered 500 by the server.
web_page(fs, sf, tr, sg, day, pg) ==
    LET h == generate_html(fs, sf, tr, sg, day, pg)
    IN  [html |-> h, status |-> IF h.raised = None THEN 200 ELSE 500]

\* a GET / request
Get ==
    /\ LET r == web_page(files, starsFile, traffic, stargazers, today, page)
       IN  /\ files' = r.html.files
           /\ starsFile' = r.html.starsFile
           /\ page' = r.html.page
           /\ lastGet' = [handled |-> TRUE, status |-> r.status,
                          raised |-> r.html.raised,
                          fetched |-> r.html.fetched,
                          wrote |-> r.html.wrote,
                          pageWritten |-> r.html.pageWritten,
                          pageBefore |-> page]
    /\ lastOp' = NoOp
    /\ UNCHANGED <<today, traffic, stargazers>>
    /\ UNCHANGED <<scanVars, webVars, schedVars>>

StatsNext ==
    \/ RunStatistics
    \/ RunStatisticsMain
    \/ NextDay

StarsNext ==
    \/ RunStars
    \/ RunStarsMain
    \/ StarAdded
    \/ StarRemoved
    \/ NextDay

DashNext ==
    \/ Get
    \/ TrafficArrives
    \/ StarAdded
    \/ NextDay

(***************************************************************************)
(* Scheduler: scheduled_tasks, __main__.py lines 291-305                   *)
(***************************************************************************)

MinutesPerDay == 1440

\* .at("10:30"), in minutes after midnight
AtTime == 630

\* time.sleep(5 * 60), in minutes
SleepMinutes == 5

\* ---- bounds of the scheduler model
SchedDays     == 1   \* the clock runs over the days 0 .. SchedDays
MaxJobMinutes == 1   \* a run of mark_stale_issues takes 0 .. MaxJobMinutes

NoTime == -1

Horizon == (SchedDays + 1) * MinutesPerDay

DayOf(t)     == t \div MinutesPerDay
TimeOfDay(t) == t % MinutesPerDay

schedule_next_run_backfill(t, last) ==
    DayOf(t) * MinutesPerDay + AtTime

\* Job._schedule_next_run of every().day.at("10:30"): now plus one day, at
\* 10:30; brought back to today when the job has not run yet (or its last
\* run is more than a day before that) and 10:30 is still ahead today.
schedule_next_run(t, last) ==
    LET next == DayOf(t + MinutesPerDay) * MinutesPerDay + AtTime
    IN  IF (last = NoTime \/ next - last > MinutesPerDay)
           /\ AtTime > TimeOfDay(t)
        THEN next - MinutesPerDay
        ELSE next

NoBoot == [day |-> NoTime, missed |-> FALSE, ahead |-> TRUE]

NoStart == [at |-> NoTime, tick |-> NoTime, boot |-> NoBoot]

\* the process is not running yet; the clock starts within the first
\* minutes of day 0, so that the polls fall on every minute of the hour
SchedInit ==
    /\ clock \in 0 .. SleepMinutes - 1
    /\ schedPc = "down"
    /\ next_run = NoTime
    /\ last_run = NoTime
    /\ boot = NoBoot
    /\ lastStart = NoStart
    /\ startsThatDay = 0
    /\ running = 0

\* the process starts: line 292 registers the job, the loop begins
Boot ==
    /\ schedPc = "down"
    /\ schedPc' = "poll"
    /\ last_run' = NoTime
    /\ next_run' = schedule_next_run(clock, NoTime)
    /\ boot' = [day |-> DayOf(clock), missed |-> TimeOfDay(clock) >= AtTime,
                ahead |-> schedule_next_run(clock, NoTime) > clock]
    /\ UNCHANGED <<clock, lastStart, startsThatDay, running>>
    /\ UNCHANGED <<scanVars, webVars, statsVars>>

\* line 294, schedule.run_pending() with the job due: mark_stale_issues
\* starts, in the scheduler thread
RunPendingDue ==
    /\ schedPc = "poll"
    /\ clock >= next_run
    /\ schedPc' = "job"
    /\ running' = running + 1
    /\ lastStart' = [at |-> clock, tick |-> next_run, boot |-> boot]
    /\ startsThatDay' = IF lastStart.at # NoTime /\ DayOf(lastStart.at) = DayOf(clock)
                        THEN startsThatDay + 1 ELSE 1
    /\ UNCHANGED <<clock, next_run, last_run, boot>>
    /\ UNCHANGED <<scanVars, webVars, statsVars>>

\* line 294, schedule.run_pending() with nothing due
RunPendingIdle ==
    /\ schedPc = "poll"
    /\ clock < next_run
    /\ schedPc' = "sleep"
    /\ UNCHANGED <<clock, next_run, last_run, boot, lastStart,
                   startsThatDay, running>>
    /\ UNCHANGED <<scanVars, webVars, statsVars>>

\* mark_stale_issues returns: Job.run sets last_run and the next run
JobReturns ==
    /\ schedPc = "job"
    /\ \E d \in 0 .. MaxJobMinutes :
         /\ clock + d < Horizon
         /\ clock' = clock + d
         /\ last_run' = clock + d
         /\ next_run' = schedule_next_run(clock + d, clock + d)
         /\ boot' = [boot EXCEPT !.ahead =
                        @ /\ schedule_next_run(clock + d, clock + d) > clock + d]
    /\ running' = running - 1
    /\ schedPc' = "sleep"
    /\ UNCHANGED <<lastStart, startsThatDay>>
    /\ UNCHANGED <<scanVars, webVars, statsVars>>

\* mark_stale_issues raises: the exception leaves run_pending and the loop,
\* and the scheduler thread ends
JobRaises ==
    /\ schedPc = "job"
    /\ running' = running - 1
    /\ schedPc' = "dead"
    /\ UNCHANGED <<clock, next_run, last_run, boot, lastStart, startsThatDay>>
    /\ UNCHANGED <<scanVars, webVars, statsVars>>

\* line 295, time.sleep(5 * 60)
Sleep ==
    /\ schedPc = "sleep"
    /\ clock + SleepMinutes < Horizon
    /\ clock' = clock + SleepMinutes
    /\ schedPc' = "poll"
    /\ UNCHANGED <<next_run, last_run, boot, lastStart, startsThatDay, running>>
    /\ UNCHANGED <<scanVars, webVars, statsVars>>

\* the process goes down, whatever the thread was doing
ProcessDown ==
    /\ schedPc # "down"
    /\ schedPc' = "down"
    /\ running' = 0
    /\ next_run' = NoTime
    /\ last_run' = NoTime
    /\ boot' = NoBoot
    /\ UNCHANGED <<clock, lastStart, startsThatDay>>
    /\ UNCHANGED <<scanVars, webVars, statsVars>>

\* time passes while no scheduler thread runs
DownTime ==
    /\ schedPc \in {"down", "dead"}
    /\ clock + SleepMinutes < Horizon
    /\ clock' = clock + SleepMinutes
    /\ UNCHANGED <<schedPc, next_run, last_run, boot, lastStart,
                   startsThatDay, running>>
    /\ UNCHANGED <<scanVars, webVars, statsVars>>

SchedNext ==
    \/ Boot
    \/ RunPendingDue
    \/ RunPendingIdle
    \/ JobReturns
    \/ JobRaises
    \/ Sleep
    \/ ProcessDown
    \/ DownTime

(***************************************************************************)
(* Properties of the scanner                                               *)
(***************************************************************************)

InSeq(x, seq) == \E k \in 1 .. Len(seq) : seq[k] = x

\* the age in hours the last run computed for issue i
AgeAtRun(i) == lastRun.today - lastRun.fetched[i].updated_at

\* more than LIMIT whole days have passed
WholeDaysOver(age) == age >= (LIMIT + 1) * HoursPerDay

\* the duration is longer than LIMIT days
DurationOver(age) == age > LIMIT * HoursPerDay

MarkedByRun(i) ==
    /\ issues[i].comments = lastRun.fetched[i].comments + 1
    /\ "stale" \in issues[i].labels

\* C1: after a run of the scanner in which no remote call fails, every open
\* issue the scanner's policy classifies as stale (more than LIMIT whole days
\* since its last update) has received one stale comment and carries the
\* stale label, and every open issue classified as not stale is exactly as
\* it was fetched.
C1_StaleIssuesMarked ==
    lastRun.status = "ok" =>
        \A i \in IssueIds :
            lastRun.fetched[i].state = "open" =>
                IF WholeDaysOver(AgeAtRun(i))
                THEN MarkedByRun(i)
                ELSE issues[i] = lastRun.fetched[i]

\* C1 witness: a clean run that marked one open issue and left another open
\* issue alone.
C1_Witness ==
    /\ lastRun.status = "ok"
    /\ \E i, j \in IssueIds :
         /\ lastRun.fetched[i].state = "open"
         /\ lastRun.fetched[j].state = "open"
         /\ AgeAtRun(i) = 61 * HoursPerDay
         /\ MarkedByRun(i)
         /\ ~WholeDaysOver(AgeAtRun(j))
         /\ issues[j] = lastRun.fetched[j]

\* C2 as stated: the scanner's decision is true exactly when
\* now - last_updated > LIMIT days, also when the excess is under a day.
C2_ExactDuration ==
    lastRun.status \in {"ok", "raised"} =>
        \A i \in IssueIds :
            lastRun.fetched[i].state = "open" =>
                (InSeq(i, lastRun.not_updated) <=> DurationOver(AgeAtRun(i)))

\* C2 amended: the scanner's decision is true exactly when the number of
\* whole days in now - last_updated exceeds LIMIT, that is when
\* now - last_updated >= LIMIT + 1 days; a last update in the future is not
\* stale.
C2_WholeDays ==
    lastRun.status \in {"ok", "raised"} =>
        \A i \in IssueIds :
            lastRun.fetched[i].state = "open" =>
                (InSeq(i, lastRun.not_updated) <=> WholeDaysOver(AgeAtRun(i)))

\* C2 witness: a run that left alone an issue older than LIMIT days by less
\* than a day and one updated in the future, and listed one that is LIMIT + 1
\* days old.
C2_Witness ==
    /\ lastRun.status \in {"ok", "raised"}
    /\ \E i \in IssueIds :
         /\ lastRun.fetched[i].state = "open"
         /\ DurationOver(AgeAtRun(i)) /\ ~WholeDaysOver(AgeAtRun(i))
         /\ ~InSeq(i, lastRun.not_updated)
    /\ \E j \in IssueIds :
         /\ lastRun.fetched[j].state = "open"
         /\ \/ AgeAtRun(j) < 0 /\ ~InSeq(j, lastRun.not_updated)
            \/ AgeAtRun(j) = (LIMIT + 1) * HoursPerDay
               /\ InSeq(j, lastRun.not_updated)

\* C3 as stated: when a remote call fails for one stale issue, every stale
\* issue listed after it is still commented and labelled in the same run.
C3_FailureSkipsOneIssue ==
    lastRun.status = "raised" =>
        \A k \in 1 .. Len(lastRun.not_updated) :
            k > (lastRun.failAt + 1) \div 2 =>
                MarkedByRun(lastRun.not_updated[k])

\* the last run's loop got as far as create_comment for the k-th listed issue
\* and that call returned
CommentedByRun(k) == lastRun.failAt = 0 \/ lastRun.failAt > 2 * k - 1

\* C11: an open issue that already carries the stale label when a tick
\* fetches it and that the scanner still classifies as stale is listed again
\* (no check for the label is made) and, when the loop gets to it, receives
\* the stale comment once more: its number of comments grows by exactly one
\* on that tick. When a remote call raised before the loop got to it, the
\* tick leaves its comments as they were.
C11_StaleCommentRepeated ==
    lastRun.status \in {"ok", "raised"} =>
        \A i \in IssueIds :
            (/\ lastRun.fetched[i].state = "open"
             /\ "stale" \in lastRun.fetched[i].labels
             /\ WholeDaysOver(AgeAtRun(i)))
            => \E k \in 1 .. Len(lastRun.not_updated) :
                 /\ lastRun.not_updated[k] = i
                 /\ issues[i].comments =
                        IF CommentedByRun(k)
                        THEN lastRun.fetched[i].comments + 1
                        ELSE lastRun.fetched[i].comments

\* C11 witness: an issue marked by an earlier tick, whose marking the
\* tracker recorded as its last update, stayed quiet for LIMIT + 1 days and
\* received a second stale comment from a clean run.
C11_Witness ==
    /\ lastRun.status = "ok"
    /\ \E i \in IssueIds :
         /\ lastRun.fetched[i].state = "open"
         /\ "stale" \in lastRun.fetched[i].labels
         /\ lastRun.fetched[i].comments = 1
         /\ lastRun.fetched[i].updated_at \in NowBase .. NowBase + NowSpan
         /\ WholeDaysOver(AgeAtRun(i))
         /\ issues[i].comments = 2

(***************************************************************************)
(* Properties of the webhook receiver                                      *)
(***************************************************************************)

\* the request carries the signature of its body under the shared secret
SignedWithSharedSecret(req) == req.signature = <<SharedSecret, req.body>>

Rejected(post) ==
    /\ ~post.dispatched
    /\ post.invoked = {}
    /\ post.status # 200

RowOfDay(rows, d) == rows[CHOOSE k \in 1 .. Len(rows) : rows[k].timestamp.day = d]

Counts(r) == <<r.count, r.uniques>>

\* C6: a successful run of statistics.py's statistics on a well-formed
\* persisted series returns and persists exactly one row for each calendar
\* day from the earliest persisted date through today, in ascending order;
\* a day's row has the counts of the persisted row of that day if there is
\* one, else those of the row the API returned for it if there is one, else
\* (0, 0).
C6_OneRowPerDay ==
    (lastOp.op = "statistics" /\ lastOp.raised = None) =>
        LET r     == lastOp.returned
            first == lastOp.before[1].timestamp.day
        IN  /\ Len(r) = lastOp.today - first + 1
            /\ \A k \in 1 .. Len(r) :
                 LET d == first + k - 1
                 IN  /\ r[k].timestamp.day = d
                     /\ Counts(r[k]) =
                          IF HasDay(lastOp.before, d)
                          THEN Counts(RowOfDay(lastOp.before, d))
                          ELSE IF HasDay(lastOp.remote, d)
                          THEN Counts(RowOfDay(lastOp.remote, d))
                          ELSE <<0, 0>>
            /\ files[lastOp.type] = r

\* C6 witness: a run that kept a persisted row, merged a fetched row and
\* filled a missing day with zeros.
C6_Witness ==
    /\ lastOp.op = "statistics"
    /\ lastOp.raised = None
    /\ Len(lastOp.returned) = 3
    /\ Counts(lastOp.returned[1]) = <<7, 3>>
    /\ \E k, j \in 2 .. 3 :
         /\ Counts(lastOp.returned[k]) = <<0, 0>>
         /\ lastOp.returned[j].count > 100
         /\ HasDay(lastOp.remote, lastOp.returned[j].timestamp.day)

\* C7 as stated: a second run of the statistics refresh, right after a
\* successful first one on the same day with the same remote data, completes
\* without error and returns and persists the series of the first run.
C7_SecondRunIdempotent ==
    (lastOp.op \in {"statistics", "statistics_main"} /\ lastOp.second) =>
        /\ lastOp.raised = None
        /\ lastOp.returned = lastOp.firstReturned
        /\ files[lastOp.type] = lastOp.before

CountRow(rows, r) == Cardinality({k \in 1 .. Len(rows) : rows[k] = r})

\* C8 as stated: after a star refresh, of either version, every row of the
\* persisted stars series is still in it, and no more often than before.
C8_StarsKept ==
    (lastOp.op \in {"stars_statistics", "stars_statistics_main"}
        /\ lastOp.raised = None) =>
        \A k \in 1 .. Len(lastOp.before) :
            /\ CountRow(starsFile, lastOp.before[k]) >= 1
            /\ CountRow(starsFile, lastOp.before[k])
                 <= CountRow(lastOp.before, lastOp.before[k])

AllSeries == {"views", "clones", "stars"}

C9_FailedAfterRender ==
    /\ lastGet.handled
    /\ lastGet.status = 500
    /\ lastGet.raised = "AttributeError"
    /\ page # NotRendered

(***************************************************************************)
(* Properties of the scheduler                                             *)
(***************************************************************************)

\* C10: every start of the scanner is the only one of its calendar day and
\* comes at or after 10:30 of that day; the tick it answers is the 10:30 of
\* that same day and was still ahead when the running process scheduled it,
\* so a tick that passed while the process was down is never run: a process
\* started after 10:30 first runs the scanner on a later day, at the next
\* 10:30; and no two runs are in progress together.
C10_OncePerDayNoBackfill ==
    /\ running <= 1
    /\ lastStart.at # NoTime =>
         /\ startsThatDay = 1
         /\ TimeOfDay(lastStart.at) >= AtTime
         /\ lastStart.tick = DayOf(lastStart.at) * MinutesPerDay + AtTime
         /\ lastStart.boot.ahead
         /\ lastStart.boot.missed => DayOf(lastStart.at) > lastStart.boot.day
    /\ schedPc \in {"poll", "sleep"} =>
         /\ boot.ahead
         /\ TimeOfDay(next_run) = AtTime
         /\ (last_run = NoTime /\ boot.missed)
               => next_run = (boot.day + 1) * MinutesPerDay + AtTime
         /\ last_run # NoTime
               => next_run = (DayOf(last_run) + 1) * MinutesPerDay + AtTime

\* C10 witness: a process started after 10:30 of day 0, the tick it missed,
\* is running the scanner for the first time, on day 1.
C10_Witness ==
    /\ schedPc = "job"
    /\ running = 1
    /\ last_run = NoTime
    /\ lastStart.boot.day = 0
    /\ lastStart.boot.missed
    /\ DayOf(lastStart.at) = 1

(***************************************************************************)
(* Specifications                                                          *)
(***************************************************************************)

ScanIdle ==
    /\ issues = [i \in IssueIds |-> [updated_at |-> NowBase, state |-> "open",
                                     comments |-> 0, labels |-> {}]]
    /\ now = NowBase
    /\ runs = 0
    /\ lastRun = NoRun
WebIdle == secret = SharedSecret /\ lastPost = NoPost

StatsIdle ==
    /\ today = 0
    /\ files = [t \in StatsTypes |-> Series(0, 0)]
    /\ traffic = [t \in StatsTypes |-> {}]
    /\ starsFile = <<>>
    /\ stargazers = <<>>
    /\ page = NotRendered
    /\ lastOp = NoOp
    /\ lastGet = NoGet

SchedIdle ==
    /\ clock = 0
    /\ schedPc = "down"
    /\ next_run = NoTime
    /\ last_run = NoTime
    /\ boot = NoBoot
    /\ lastStart = NoStart
    /\ startsThatDay = 0
    /\ running = 0

InitScan  == ScanInit /\ WebIdle /\ StatsIdle /\ SchedIdle
InitWeb   == WebInit /\ ScanIdle /\ StatsIdle /\ SchedInit
InitStats == StatsInit /\ ScanIdle /\ WebIdle /\ SchedInit
InitDash  == StatsIdle /\ ScanIdle /\ WebIdle /\ SchedInit
InitSched == SchedInit /\ ScanIdle /\ WebIdle /\ StatsIdle
InitRescan == RescanInit /\ WebIdle /\ StatsIdle /\ SchedIdle

SpecScan  == InitScan /\ [][ScanNext]_vars
SpecWeb   == InitWeb /\ [][WebNext]_vars
SpecStats == InitStats /\ [][StatsNext]_vars
SpecStars == InitStats /\ [][StarsNext]_vars
SpecDash  == InitDash /\ [][DashNext]_vars
SpecSched == InitSched /\ [][SchedNext]_vars
SpecRescan == InitRescan /\ [][RescanNext]_vars

====
